---- MODULE Spec2Model ----
(***************************************************************************)
(* A model of tunnel.py: two peers (the listener role "server" and the     *)
(* dialer role "client") multiplex TCP streams over one control connection.*)
(* Every thread of the program is a thread of the model: the session       *)
(* supervisor (the __main__ loop), the port listener (TunnelPort), the     *)
(* keep-alive ticker (KeepAlive) and one stream worker per TunnelConnection.*)
(* A step of a thread is the code between two blocking points (a lock, a   *)
(* socket call, a join).                                                   *)
(***************************************************************************)
EXTENDS Integers, Sequences, FiniteSets, TLC

\* ------------------------------------------------------------------ bounds
MaxStreams == 4     \* TunnelConnection objects ever constructed
MaxChunks == 1      \* chunks a stream worker reads from its local socket
MaxTime == 60       \* the clock stops here
MaxCid == 1         \* largest CID a slot is appended for / a peer may name
WireCap == 2        \* segments the control connection buffers per direction
MaxKA == 1          \* KeepAlive frames a ticker writes
MaxAccepts == 1     \* local connections a port listener accepts (where stated)
MaxDials == 1       \* Connect frames the supervisor dials for (where stated)
MaxPeriods == 2     \* cooldown periods the clock advances (where stated)
MaxCloses == 2      \* streams whose local end closes (where stated)

\* ------------------------------------------------------- program constants
COOLDOWN_TIME == 60        \* Cid.__COOLDOWN_TIME
FORWARD_PORT == 7000       \* the port of --forward (scenario 1 of the spec)
SECOND_PORT == 7001        \* a second port of --forward
OTHER_PORT == 80           \* a port that is in no --forward list

Peers == {"server", "client"}
Other(p) == IF p = "server" THEN "client" ELSE "server"
\* TunnelConnections(connection, args.command == "server")
IsServer(p) == p = "server"

Cids == 0..MaxCid
Sids == 1..MaxStreams

\* Thread identifiers: <<kind, peer, stream>>.
Sup(p) == <<"sup", p, 0>>
Lst(p) == <<"lst", p, 0>>
Lst2(p) == <<"lst", p, 1>>
Ka(p) == <<"ka", p, 0>>
Wrk(p, s) == <<"wrk", p, s>>
NoThread == <<"none", "none", 0>>
Threads == ({"sup", "lst", "ka"} \X Peers \X {0}) \cup ({"lst"} \X Peers \X {1})
           \cup ({"wrk"} \X Peers \X Sids)
PeerOf(t) == t[2]

\* A frame of the wire protocol.  arg is the port of a Connect, the payload
\* of a Data, the digest of the handshake; src is the identity of the
\* TunnelConnection object the frame was built for (not on the wire: it only
\* lets the properties tell two streams on one CID apart).
Frame(tag, cid, arg, src) == [tag |-> tag, cid |-> cid, arg |-> arg, src |-> src]
NoFrame == Frame("None", 0, 0, 0)
Tags == {"Allocate", "Cid", "Connect", "Close", "Data", "KeepAlive"}

\* The i-th chunk the worker of stream s read from its local socket.
Tok(s, i) == s * (MaxChunks + 1) + i

VARIABLES
    now,          \* time.time()
    cfg,          \* [peer -> [digest, fwd]]: the program text digest and --forward
    real,         \* the peers that run this program (the other is the network)
    link,         \* the TCP/TLS connection: "down", "up", "broken"
    conn,         \* [peer -> "none" | "open" | "closed"]: StreamConnection.__sock
    wire,         \* [peer -> segments written by the peer, not yet read by the other]
    wlock,        \* [peer -> holder of StreamConnection.__lock]
    lock,         \* [peer -> holder of TunnelConnections.__lock]
    connections,  \* [peer -> [cid -> stream or 0]]: TunnelConnections.__connections
    allocated,    \* [peer -> sequence of Cid slots]: TunnelConnections.__allocated
    cids,         \* [peer -> FIFO of received CIDs]: TunnelConnections.__cids
    streams,      \* the TunnelConnection objects, in construction order
    pc,           \* [thread -> where it is]
    out,          \* [thread -> the frame it is writing]
    ret,          \* [thread -> where it goes when the write returns]
    reg,          \* [thread -> [cid, sid]]: the locals cid and conn/connection
    cur,          \* [peer -> the frame the supervisor is dispatching]
    lsock,        \* [peer -> "none" | "open" | "closed"]: TunnelPort.__sock
    running,      \* [peer -> KeepAlive.__running]
    kacount,      \* [peer -> KeepAlive frames written]
    tdset,        \* [peer -> the streams closeall() still has to close]
    fatal,        \* [peer -> the supervisor's except block was entered]
    pvalue,       \* the value handed to writePackedUInt64
    pdata,        \* the bytes of the stream it was written to
    presult       \* what readPackedUInt64 returned from those bytes

vars == <<now, cfg, real, link, conn, wire, wlock, lock, connections, allocated,
          cids, streams, pc, out, ret, reg, cur, lsock, running, kacount, tdset, fatal,
          pvalue, pdata, presult>>

\* ----------------------------------------------------------------- helpers
MinOf(S) == CHOOSE x \in S : \A y \in S : x <= y
SetPc(t, l) == [pc EXCEPT ![t] = l]
NoReg == [cid |-> 0, sid |-> 0]
EmptyMap == [c \in Cids |-> 0]

\* The stream objects of peer p.
StreamsOf(p) == {s \in 1..Len(streams) : streams[s].peer = p}
\* TunnelConnection(self, cid, sock): __closed = False, thread not started.
NewStream(p, cid, pair, origin) ==
    [peer |-> p, cid |-> cid, pair |-> pair, origin |-> origin, closed |-> FALSE,
     sock |-> "open", app |-> "open", rdn |-> 0, wr |-> <<>>, announced |-> FALSE]

\* The control connection can carry bytes from p.
CanSend(p) == conn[p] = "open" /\ conn[Other(p)] = "open" /\ link = "up"
\* A whole frame is at the head of what p can read.
Inbound(p) == wire[Other(p)]
HasFrame(p) == /\ Len(Inbound(p)) >= 2
               /\ Inbound(p)[1].part = 1
               /\ Inbound(p)[2].part = 2
               /\ Inbound(p)[1].by = Inbound(p)[2].by
\* Variable groups, for the UNCHANGED clauses.
pack == <<pvalue, pdata, presult>>
envv == <<now, cfg, real, link, pack>>
chan == <<conn, wire, wlock>>
regy == <<lock, connections, allocated, cids>>
thrd == <<pc, out, ret, reg>>
supv == <<cur, lsock, running, kacount, tdset, fatal>>

\* ------------------------------------------------------ control connection
\* One segment of a frame on the wire: sendall hands a frame to the socket in
\* two pieces, part 1 and part 2; by is the thread that wrote it.
Seg(t, f, k) == [fr |-> f, part |-> k, by |-> t]

\* StreamConnection.write without its lock.
LockIgnored(p) == TRUE

\* self.__lock.acquire() of StreamConnection.write can return.
LockFree(p) == wlock[p] = NoThread

\* A thread calls connection.write(f) and goes on at r when it returns.
CallWrite(t, f, r) ==
    /\ pc' = SetPc(t, "write")
    /\ out' = [out EXCEPT ![t] = f]
    /\ ret' = [ret EXCEPT ![t] = r]

\* StreamConnection.write: acquire the lock, start sendall.  If the socket is
\* dead sendall raises, the except branch closes the socket, and the lock is
\* released: write() never raises.
WriteBegin(t) ==
    LET p == PeerOf(t) IN
    /\ pc[t] = "write"
    /\ LockFree(p)
    /\ IF CanSend(p)
       THEN /\ Len(wire[p]) < WireCap
            /\ wire' = [wire EXCEPT ![p] = Append(@, Seg(t, out[t], 1))]
            /\ wlock' = [wlock EXCEPT ![p] = t]
            /\ pc' = SetPc(t, "sending")
            /\ streams' = IF out[t].tag = "Connect"
                          THEN [streams EXCEPT ![out[t].src].announced = TRUE]
                          ELSE streams
            /\ UNCHANGED <<conn, out, ret>>
       ELSE /\ conn' = [conn EXCEPT ![p] = "closed"]
            /\ pc' = SetPc(t, ret[t])
            /\ out' = [out EXCEPT ![t] = NoFrame]
            /\ ret' = [ret EXCEPT ![t] = ""]
            /\ UNCHANGED <<wire, wlock, streams>>
    /\ UNCHANGED <<envv, regy, reg, supv>>

\* StreamConnection.write: the rest of sendall, then self.__lock.release().
WriteEnd(t) ==
    LET p == PeerOf(t) IN
    /\ pc[t] = "sending"
    /\ IF CanSend(p)
       THEN /\ Len(wire[p]) < WireCap
            /\ wire' = [wire EXCEPT ![p] = Append(@, Seg(t, out[t], 2))]
            /\ UNCHANGED conn
       ELSE /\ conn' = [conn EXCEPT ![p] = "closed"]
            /\ UNCHANGED wire
    /\ wlock' = [wlock EXCEPT ![p] = NoThread]
    /\ pc' = SetPc(t, ret[t])
    /\ out' = [out EXCEPT ![t] = NoFrame]
    /\ ret' = [ret EXCEPT ![t] = ""]
    /\ UNCHANGED <<envv, regy, streams, reg, supv>>

\* StreamConnection.write as one step: the lock is taken, sendall sends the
\* whole frame (or raises and the socket is closed), the lock is released.
Write(t) ==
    LET p == PeerOf(t) IN
    /\ pc[t] = "write"
    /\ LockFree(p)
    /\ IF CanSend(p)
       THEN /\ Len(wire[p]) + 2 <= WireCap
            /\ wire' = [wire EXCEPT ![p] = @ \o <<Seg(t, out[t], 1), Seg(t, out[t], 2)>>]
            /\ streams' = IF out[t].tag = "Connect"
                          THEN [streams EXCEPT ![out[t].src].announced = TRUE]
                          ELSE streams
            /\ UNCHANGED conn
       ELSE /\ conn' = [conn EXCEPT ![p] = "closed"]
            /\ UNCHANGED <<wire, streams>>
    /\ pc' = SetPc(t, ret[t])
    /\ out' = [out EXCEPT ![t] = NoFrame]
    /\ ret' = [ret EXCEPT ![t] = ""]
    /\ UNCHANGED <<envv, wlock, regy, reg, supv>>

\* ------------------------------------------------------------ CID registry
\* Cid.ready without the cooldown test.
ReadyNoCooldown(slot) == ~slot.active

\* Cid.ready
Ready(slot) == ~slot.active /\ now - slot.time >= COOLDOWN_TIME

\* TunnelConnections.__ready: the first ready slot of the list (0: none);
\* the slot at list position i holds CID i - 1.
ReadyIndex(p) ==
    LET R == {i \in 1..Len(allocated[p]) : Ready(allocated[p][i])}
    IN IF R = {} THEN 0 ELSE MinOf(R)

\* The CID the server-role allocate() returns.
AllocatedCid(p) == IF ReadyIndex(p) = 0 THEN Len(allocated[p]) ELSE ReadyIndex(p) - 1

\* Cid.activate on the chosen slot, a new slot appended when none is ready.
Activated(p) ==
    LET slot == [active |-> TRUE, time |-> now] IN
    IF ReadyIndex(p) = 0
    THEN [allocated EXCEPT ![p] = Append(@, slot)]
    ELSE [allocated EXCEPT ![p][ReadyIndex(p)] = slot]

\* self.__allocated[cid] raises IndexError.
RemoveRaises(p, cid) == IsServer(p) /\ cid >= Len(allocated[p])

\* TunnelConnections.remove, called by thread t.  When the index is out of
\* range the exception leaves the method between acquire() and release().
Remove(t, cid) ==
    LET p == PeerOf(t) IN
    /\ lock[p] = NoThread
    /\ connections' = [connections EXCEPT ![p][cid] = 0]
    /\ allocated' = IF IsServer(p) /\ ~RemoveRaises(p, cid)
                    THEN [allocated EXCEPT ![p][cid + 1] = [active |-> FALSE, time |-> now]]
                    ELSE allocated
    /\ lock' = IF RemoveRaises(p, cid) THEN [lock EXCEPT ![p] = t] ELSE lock
    /\ UNCHANGED cids

\* TunnelConnections.send with a lookup that falls back to any stream.
LookupAny(p, cid) ==
    IF connections[p][cid] # 0 \/ \A c \in Cids : connections[p][c] = 0
    THEN connections[p][cid]
    ELSE connections[p][CHOOSE c \in Cids : connections[p][c] # 0]

\* The lookup of TunnelConnections.send and close: the stream under cid, 0 if none.
Lookup(p, cid) == connections[p][cid]

\* ------------------------------------------------------------ stream worker
\* TunnelConnection.run: recv_into returned data; the Data frame is built.
WorkerRecvData(p, s) ==
    /\ s \in StreamsOf(p)
    /\ pc[Wrk(p, s)] = "recv"
    /\ streams[s].sock = "open" /\ streams[s].app = "open"
    /\ streams[s].rdn < MaxChunks
    /\ streams' = [streams EXCEPT ![s].rdn = @ + 1]
    /\ CallWrite(Wrk(p, s), Frame("Data", streams[s].cid, Tok(s, streams[s].rdn + 1), s), "recv")
    /\ UNCHANGED <<envv, chan, regy, reg, supv>>

\* TunnelConnection.run: recv_into returned 0 or raised (the local side closed,
\* or close() shut the socket down); the loop is left and __closed is tested.
WorkerLeave(p, s) ==
    /\ s \in StreamsOf(p)
    /\ pc[Wrk(p, s)] = "recv"
    /\ streams[s].sock # "open" \/ streams[s].app = "closed"
    /\ IF streams[s].closed
       THEN pc' = SetPc(Wrk(p, s), "done") /\ UNCHANGED <<out, ret>>
       ELSE CallWrite(Wrk(p, s), Frame("Close", streams[s].cid, 0, s), "remove")
    /\ UNCHANGED <<envv, chan, regy, streams, reg, supv>>

\* TunnelConnection.run: self.__connections.remove(self.__cid); the thread ends
\* (by the IndexError too).
WorkerRemove(p, s) ==
    /\ s \in StreamsOf(p)
    /\ pc[Wrk(p, s)] = "remove"
    /\ Remove(Wrk(p, s), streams[s].cid)
    /\ pc' = SetPc(Wrk(p, s), "done")
    /\ UNCHANGED <<envv, chan, streams, out, ret, reg, supv>>

\* The program on the far end of a stream's local socket closes it.
LocalClose(s) ==
    /\ s \in 1..Len(streams)
    /\ streams[s].app = "open"
    /\ streams[s].peer \in real
    /\ streams' = [streams EXCEPT ![s].app = "closed"]
    /\ UNCHANGED <<envv, chan, regy, thrd, supv>>

\* ---------------------------------------------------------- keep-alive ticker
\* KeepAlive.run: the period has passed and __isrunning() holds: write the frame.
KaTick(p) ==
    /\ pc[Ka(p)] = "sleep"
    /\ running[p]
    /\ kacount[p] < MaxKA
    /\ kacount' = [kacount EXCEPT ![p] = @ + 1]
    /\ CallWrite(Ka(p), Frame("KeepAlive", 0, 0, 0), "sleep")
    /\ UNCHANGED <<envv, chan, regy, streams, reg, cur, lsock, running, tdset, fatal>>

\* KeepAlive.run: __isrunning() is false: self.__connection.close(), the thread ends.
KaExit(p) ==
    /\ pc[Ka(p)] = "sleep"
    /\ ~running[p]
    /\ conn' = [conn EXCEPT ![p] = "closed"]
    /\ pc' = SetPc(Ka(p), "done")
    /\ UNCHANGED <<envv, wire, wlock, regy, streams, out, ret, reg, supv>>

\* ------------------------------------------------- TunnelConnections.allocate
\* allocate() is called by the port listener and by the supervisor (on an
\* Allocate frame); each goes on in its own code when it returns.
AfterAllocate(t) == IF t[1] = "lst" THEN "create" ELSE "reply"

\* Server role: the whole method under the registry mutex.
AllocateServer(t) ==
    LET p == PeerOf(t) IN
    /\ pc[t] = "allocate"
    /\ IsServer(p)
    /\ lock[p] = NoThread
    /\ ReadyIndex(p) # 0 \/ Len(allocated[p]) <= MaxCid
    /\ allocated' = Activated(p)
    /\ reg' = [reg EXCEPT ![t].cid = AllocatedCid(p)]
    /\ pc' = SetPc(t, AfterAllocate(t))
    /\ UNCHANGED <<envv, chan, lock, connections, cids, streams, out, ret, supv>>

\* Client role: the Allocate frame is written with the registry mutex held.
AllocateClient(t) ==
    LET p == PeerOf(t) IN
    /\ pc[t] = "allocate"
    /\ ~IsServer(p)
    /\ lock[p] = NoThread
    /\ lock' = [lock EXCEPT ![p] = t]
    /\ CallWrite(t, Frame("Allocate", 0, 0, 0), "alloc_sent")
    /\ UNCHANGED <<envv, chan, connections, allocated, cids, streams, reg, supv>>

\* self.__cids.pop() in place of pop(0): the position of the last CID.
PopIndexLast(p) == Len(cids[p])

\* self.__cids.pop(0): the position of the CID that is popped.
PopIndex(p) == 1

\* cid = self.__cids.pop(0)
NextCid(p) == cids[p][PopIndex(p)]

\* The FIFO after the pop.
Popped(p) ==
    [cids EXCEPT ![p] = SubSeq(@, 1, PopIndex(p) - 1) \o SubSeq(@, PopIndex(p) + 1, Len(@))]

\* Client role: the first test of "while not len(self.__cids)", mutex held.
AllocateSent(t) ==
    LET p == PeerOf(t) IN
    /\ pc[t] = "alloc_sent"
    /\ lock' = [lock EXCEPT ![p] = NoThread]
    /\ IF Len(cids[p]) > 0
       THEN /\ reg' = [reg EXCEPT ![t].cid = NextCid(p)]
            /\ cids' = Popped(p)
            /\ pc' = SetPc(t, AfterAllocate(t))
       ELSE /\ pc' = SetPc(t, "alloc_wait")
            /\ UNCHANGED <<reg, cids>>
    /\ UNCHANGED <<envv, chan, connections, allocated, streams, out, ret, supv>>

\* Client role: the polling loop (release, sleep 0.1 s, acquire) finds a CID.
AllocateWait(t) ==
    LET p == PeerOf(t) IN
    /\ pc[t] = "alloc_wait"
    /\ lock[p] = NoThread
    /\ Len(cids[p]) > 0
    /\ reg' = [reg EXCEPT ![t].cid = NextCid(p)]
    /\ cids' = Popped(p)
    /\ pc' = SetPc(t, AfterAllocate(t))
    /\ UNCHANGED <<envv, chan, lock, connections, allocated, streams, out, ret, supv>>

\* -------------------------------------------------------------- port listener
\* TunnelPort.run with start(cid) before the Connect write.
ListenerNextStartFirst(l) ==
    CASE l = "create" -> "start"
      [] l = "start" -> "connect"
      [] l = "connect" -> "accept"

\* The order of the loop body of TunnelPort.run after allocate():
\* create(cid, conn), the Connect write, start(cid), and back to accept().
ListenerNext(l) ==
    CASE l = "create" -> "connect"
      [] l = "connect" -> "start"
      [] l = "start" -> "accept"

\* The locals cid and conn are dead once the loop body is done.
ListenerRegs(t, l) == IF ListenerNext(l) = "accept" THEN [reg EXCEPT ![t] = NoReg] ELSE reg

\* The port a TunnelPort forwards to.
PortOf(t) == IF t[3] = 0 THEN FORWARD_PORT ELSE SECOND_PORT

\* TunnelPort.run of the listener thread t: accept() returns a local connection.
PortAccept(t) ==
    LET p == PeerOf(t) IN
    /\ pc[t] = "accept"
    /\ lsock[p] = "open"
    /\ Len(streams) < MaxStreams
    /\ streams' = Append(streams, NewStream(p, 0, 0, TRUE))
    /\ reg' = [reg EXCEPT ![t].sid = Len(streams) + 1]
    /\ pc' = [pc EXCEPT ![t] = "allocate", ![Wrk(p, Len(streams) + 1)] = "init"]
    /\ UNCHANGED <<envv, chan, regy, out, ret, supv>>

\* TunnelPort.run: accept() raises on the closed listening socket; except: pass.
PortStop(t) ==
    /\ pc[t] = "accept"
    /\ lsock[PeerOf(t)] = "closed"
    /\ pc' = SetPc(t, "done")
    /\ UNCHANGED <<envv, chan, regy, streams, out, ret, reg, supv>>

\* TunnelConnections.create(cid, conn), called by the listener.
PortCreate(t) ==
    LET p == PeerOf(t) IN
    /\ pc[t] = "create"
    /\ lock[p] = NoThread
    /\ streams' = [streams EXCEPT ![reg[t].sid].cid = reg[t].cid]
    /\ connections' = [connections EXCEPT ![p][reg[t].cid] = reg[t].sid]
    /\ pc' = SetPc(t, ListenerNext("create"))
    /\ UNCHANGED <<envv, chan, lock, allocated, cids, out, ret, reg, supv>>

\* TunnelPort.run: the Connect frame is built and written.
PortConnect(t) ==
    /\ pc[t] = "connect"
    /\ CallWrite(t, Frame("Connect", reg[t].cid, PortOf(t), reg[t].sid),
                 ListenerNext("connect"))
    /\ reg' = ListenerRegs(t, "connect")
    /\ UNCHANGED <<envv, chan, regy, streams, supv>>

\* TunnelConnections.start(cid), called by the listener: a KeyError leaves the
\* method with the mutex held, a second Thread.start() raises RuntimeError;
\* either ends the listener thread (except: pass).
PortStart(t) ==
    LET p == PeerOf(t)
        s == connections[p][reg[t].cid]
    IN
    /\ pc[t] = "start"
    /\ lock[p] = NoThread
    /\ IF s = 0
       THEN /\ lock' = [lock EXCEPT ![p] = t]
            /\ pc' = SetPc(t, "done")
            /\ reg' = [reg EXCEPT ![t] = NoReg]
       ELSE /\ UNCHANGED lock
            /\ IF pc[Wrk(p, s)] = "init"
               THEN /\ pc' = [pc EXCEPT ![t] = ListenerNext("start"), ![Wrk(p, s)] = "recv"]
                    /\ reg' = ListenerRegs(t, "start")
               ELSE /\ pc' = SetPc(t, "done")
                    /\ reg' = [reg EXCEPT ![t] = NoReg]
    /\ UNCHANGED <<envv, chan, connections, allocated, cids, streams, out, ret, supv>>

\* The same steps for the listener of the first forwarded port.
ListenerAccept(p) == PortAccept(Lst(p))
ListenerStop(p) == PortStop(Lst(p))
ListenerCreate(p) == PortCreate(Lst(p))
ListenerConnect(p) == PortConnect(Lst(p))
ListenerStart(p) == PortStart(Lst(p))

\* ---------------------------------------------------------------- supervisor
\* The handshake a side sends: the digest, and the forward ports (cid holds
\* their number: FORWARD_PORT first, SECOND_PORT second).
Hello(p) == Frame("Hello", Cardinality(cfg[p].fwd), cfg[p].digest, 0)

\* The head of the inbound stream is consumed.
Consumed(p) == [wire EXCEPT ![Other(p)] = SubSeq(@, 3, Len(@))]

\* An exception reaches the "except:" of the supervisor loop.
Raised(p) == SetPc(Sup(p), "td_ports")

\* ServerConnection(...) accepts what ClientConnection(...) connects; each
\* side builds its handshake and calls connection.write.  A peer that is the
\* network has its handshake already in flight.
Establish ==
    /\ link = "down"
    /\ \A p \in real : pc[Sup(p)] = "connect"
    /\ link' = "up"
    /\ conn' = [p \in Peers |-> "open"]
    /\ wire' = [p \in Peers |-> IF p \in real THEN <<>>
                                ELSE <<Seg(Sup(p), Hello(p), 1), Seg(Sup(p), Hello(p), 2)>>]
    /\ pc' = [t \in Threads |-> IF t[1] = "sup" /\ t[2] \in real THEN "write" ELSE pc[t]]
    /\ out' = [t \in Threads |-> IF t[1] = "sup" /\ t[2] \in real THEN Hello(t[2]) ELSE out[t]]
    /\ ret' = [t \in Threads |-> IF t[1] = "sup" /\ t[2] \in real THEN "hs_recv" ELSE ret[t]]
    /\ UNCHANGED <<now, cfg, real, pack, wlock, regy, streams, reg, supv>>

\* The digest comparison left out: every peer is taken for the same program.
MismatchIgnored(p, h) == FALSE

\* "if rdigest != digest": the digest received differs from the local one.
Mismatch(p, h) == h.arg # cfg[p].digest

\* The peer's handshake is read: a digest mismatch raises; otherwise the
\* registry is constructed, a TunnelPort is started per received port, and the
\* KeepAlive thread is started.
SupHandshake(p) ==
    LET h == Inbound(p)[1].fr IN
    /\ pc[Sup(p)] = "hs_recv"
    /\ conn[p] = "open"
    /\ HasFrame(p)
    /\ wire' = Consumed(p)
    /\ IF Mismatch(p, h)
       THEN /\ pc' = Raised(p)
            /\ fatal' = [fatal EXCEPT ![p] = TRUE]
            /\ UNCHANGED <<regy, lsock, running>>
       ELSE /\ lock' = [lock EXCEPT ![p] = NoThread]
            /\ connections' = [connections EXCEPT ![p] = EmptyMap]
            /\ allocated' = [allocated EXCEPT ![p] = <<>>]
            /\ cids' = [cids EXCEPT ![p] = <<>>]
            /\ lsock' = [lsock EXCEPT ![p] = IF h.cid > 0 THEN "open" ELSE "none"]
            /\ running' = [running EXCEPT ![p] = TRUE]
            /\ pc' = [pc EXCEPT ![Sup(p)] = "dispatch",
                                ![Lst(p)] = IF h.cid > 0 THEN "accept" ELSE "none",
                                ![Lst2(p)] = IF h.cid > 1 THEN "accept" ELSE "none",
                                ![Ka(p)] = "sleep"]
            /\ UNCHANGED fatal
    /\ UNCHANGED <<envv, conn, wlock, streams, out, ret, reg, cur, kacount, tdset>>

\* The dispatch loop reads one frame and switches on its tag; KeepAlive is a
\* no-op, an unknown tag raises.
SupRead(p) ==
    LET f == Inbound(p)[1].fr
        tag == IF HasFrame(p) THEN f.tag ELSE "Bad"
    IN
    /\ pc[Sup(p)] = "dispatch"
    /\ conn[p] = "open"
    /\ Len(Inbound(p)) >= 2
    /\ wire' = Consumed(p)
    /\ cur' = [cur EXCEPT ![p] = IF tag \in Tags \ {"KeepAlive"} THEN f ELSE NoFrame]
    /\ pc' = SetPc(Sup(p), CASE tag = "Allocate" -> "allocate"
                             [] tag = "Cid" -> "h_cid"
                             [] tag = "Connect" -> "h_connect"
                             [] tag = "Close" -> "h_close"
                             [] tag = "Data" -> "h_data"
                             [] tag = "KeepAlive" -> "dispatch"
                             [] OTHER -> "td_ports")
    /\ fatal' = [fatal EXCEPT ![p] = @ \/ tag \notin Tags]
    /\ UNCHANGED <<envv, conn, wlock, regy, streams, out, ret, reg, lsock, running,
                   kacount, tdset>>

\* A read of the control connection raises: the socket was closed on this
\* side (recv_into on a closed socket), or the connection is lost (reset,
\* timed out) and nothing is left to read.
SupReadFail(p) ==
    /\ pc[Sup(p)] \in {"hs_recv", "dispatch"}
    /\ \/ conn[p] # "open"
       \/ ~HasFrame(p) /\ link = "broken"
    /\ pc' = Raised(p)
    /\ fatal' = [fatal EXCEPT ![p] = TRUE]
    /\ UNCHANGED <<envv, chan, regy, streams, out, ret, reg, cur, lsock, running,
                   kacount, tdset>>

\* StreamConnection.read after the peer has closed the connection: recv_into
\* returns 0 at end of stream, "read += 0" leaves read < size, and the loop
\* goes round again with nothing changed.
SupReadSpin(p) ==
    /\ pc[Sup(p)] \in {"hs_recv", "dispatch"}
    /\ conn[p] = "open"
    /\ link = "up"
    /\ conn[Other(p)] = "closed"
    /\ Len(Inbound(p)) < 2
    /\ UNCHANGED vars

\* Allocate: cid = connections.allocate() has returned; Cid(cid) is written.
SupReply(p) ==
    LET t == Sup(p) IN
    /\ pc[t] = "reply"
    /\ CallWrite(t, Frame("Cid", reg[t].cid, 0, 0), "dispatch")
    /\ reg' = [reg EXCEPT ![t] = NoReg]
    /\ cur' = [cur EXCEPT ![p] = NoFrame]
    /\ UNCHANGED <<envv, chan, regy, streams, lsock, running, kacount, tdset, fatal>>

\* Cid: connections.cid(cid).
SupCid(p) ==
    /\ pc[Sup(p)] = "h_cid"
    /\ lock[p] = NoThread
    /\ cids' = [cids EXCEPT ![p] = Append(@, cur[p].cid)]
    /\ cur' = [cur EXCEPT ![p] = NoFrame]
    /\ pc' = SetPc(Sup(p), "dispatch")
    /\ UNCHANGED <<envv, chan, lock, connections, allocated, streams, out, ret, reg,
                   lsock, running, kacount, tdset, fatal>>

\* Connect: the port is in args.forward and sock.connect succeeds.
SupConnectDial(p) ==
    LET t == Sup(p) IN
    /\ pc[t] = "h_connect"
    /\ cur[p].arg \in cfg[p].fwd
    /\ Len(streams) < MaxStreams
    /\ streams' = Append(streams, NewStream(p, cur[p].cid, cur[p].src, FALSE))
    /\ reg' = [reg EXCEPT ![t].sid = Len(streams) + 1]
    /\ pc' = [pc EXCEPT ![t] = "h_create", ![Wrk(p, Len(streams) + 1)] = "init"]
    /\ UNCHANGED <<envv, chan, regy, out, ret, supv>>

\* Connect: the port is not in args.forward (no socket is made), or
\* sock.connect raises: the except branch writes Close(cid).
SupConnectAbort(p) ==
    LET t == Sup(p) IN
    /\ pc[t] = "h_connect"
    /\ CallWrite(t, Frame("Close", cur[p].cid, 0, 0), "h_remove")
    /\ UNCHANGED <<envv, chan, regy, streams, reg, supv>>

\* Connect: connections.create(cid, sock).
SupCreate(p) ==
    LET t == Sup(p) IN
    /\ pc[t] = "h_create"
    /\ lock[p] = NoThread
    /\ connections' = [connections EXCEPT ![p][cur[p].cid] = reg[t].sid]
    /\ pc' = SetPc(t, "h_start")
    /\ UNCHANGED <<envv, chan, lock, allocated, cids, streams, out, ret, reg, supv>>

\* Connect: connections.start(cid).  A KeyError (mutex left held) or the
\* RuntimeError of a second Thread.start() is caught by the except branch.
SupStart(p) ==
    LET t == Sup(p)
        s == connections[p][cur[p].cid]
    IN
    /\ pc[t] = "h_start"
    /\ lock[p] = NoThread
    /\ reg' = [reg EXCEPT ![t] = NoReg]
    /\ IF s # 0 /\ pc[Wrk(p, s)] = "init"
       THEN /\ pc' = [pc EXCEPT ![t] = "dispatch", ![Wrk(p, s)] = "recv"]
            /\ cur' = [cur EXCEPT ![p] = NoFrame]
            /\ UNCHANGED <<lock, out, ret>>
       ELSE /\ lock' = IF s = 0 THEN [lock EXCEPT ![p] = t] ELSE lock
            /\ CallWrite(t, Frame("Close", cur[p].cid, 0, 0), "h_remove")
            /\ UNCHANGED cur
    /\ UNCHANGED <<envv, chan, connections, allocated, cids, streams, lsock, running,
                   kacount, tdset, fatal>>

\* connections.remove(cid) after a Close frame or an aborted Connect; its
\* IndexError reaches the supervisor's except.
SupRemove(p) ==
    LET t == Sup(p) IN
    /\ pc[t] = "h_remove"
    /\ Remove(t, cur[p].cid)
    /\ pc' = IF RemoveRaises(p, cur[p].cid) THEN Raised(p) ELSE SetPc(t, "dispatch")
    /\ fatal' = [fatal EXCEPT ![p] = @ \/ RemoveRaises(p, cur[p].cid)]
    /\ cur' = [cur EXCEPT ![p] = NoFrame]
    /\ UNCHANGED <<envv, chan, streams, out, ret, reg, lsock, running, kacount, tdset>>

\* Close: connections.close(cid) finds no stream.
SupCloseAbsent(p) ==
    /\ pc[Sup(p)] = "h_close"
    /\ lock[p] = NoThread
    /\ Lookup(p, cur[p].cid) = 0
    /\ pc' = SetPc(Sup(p), "h_remove")
    /\ UNCHANGED <<envv, chan, regy, streams, out, ret, reg, supv>>

\* Close: TunnelConnection.close: __closed = True, shutdown, close, then
\* join(), which raises RuntimeError on a thread that was never started.
SupCloseStream(p) ==
    LET t == Sup(p)
        s == Lookup(p, cur[p].cid)
    IN
    /\ pc[t] = "h_close"
    /\ lock[p] = NoThread
    /\ s # 0
    /\ streams' = [streams EXCEPT ![s].closed = TRUE, ![s].sock = "shut"]
    /\ IF pc[Wrk(p, s)] = "init"
       THEN /\ pc' = Raised(p)
            /\ fatal' = [fatal EXCEPT ![p] = TRUE]
            /\ cur' = [cur EXCEPT ![p] = NoFrame]
            /\ UNCHANGED reg
       ELSE /\ pc' = SetPc(t, "join")
            /\ reg' = [reg EXCEPT ![t].sid = s]
            /\ UNCHANGED <<fatal, cur>>
    /\ UNCHANGED <<envv, chan, regy, out, ret, lsock, running, kacount, tdset>>

\* Close: sock.shutdown raises on a socket whose far end is gone; the
\* exception leaves close() and reaches the supervisor's except.
SupCloseRaise(p) ==
    LET s == Lookup(p, cur[p].cid) IN
    /\ pc[Sup(p)] = "h_close"
    /\ lock[p] = NoThread
    /\ s # 0
    /\ streams[s].app = "closed"
    /\ streams' = [streams EXCEPT ![s].closed = TRUE]
    /\ pc' = Raised(p)
    /\ fatal' = [fatal EXCEPT ![p] = TRUE]
    /\ cur' = [cur EXCEPT ![p] = NoFrame]
    /\ UNCHANGED <<envv, chan, regy, out, ret, reg, lsock, running, kacount, tdset>>

\* Close: the join() of TunnelConnection.close returns.
SupJoin(p) ==
    LET t == Sup(p) IN
    /\ pc[t] = "join"
    /\ pc[Wrk(p, reg[t].sid)] = "done"
    /\ pc' = SetPc(t, "h_remove")
    /\ reg' = [reg EXCEPT ![t] = NoReg]
    /\ UNCHANGED <<envv, chan, regy, streams, out, ret, supv>>

\* Data: connections.send(cid, data): the CID is not in the map, the payload
\* is dropped.  (cid and data keep their values until the next frame is read.)
SupDataDrop(p) ==
    /\ pc[Sup(p)] = "h_data"
    /\ lock[p] = NoThread
    /\ Lookup(p, cur[p].cid) = 0
    /\ pc' = SetPc(Sup(p), "dispatch")
    /\ UNCHANGED <<envv, chan, regy, streams, out, ret, reg, supv>>

\* Data: connections.send(cid, data): sendall to the stream's local socket
\* returns (a socket whose far end has just closed may still take the bytes).
SupDataSend(p) ==
    LET s == Lookup(p, cur[p].cid) IN
    /\ pc[Sup(p)] = "h_data"
    /\ lock[p] = NoThread
    /\ s # 0
    /\ streams[s].sock = "open"
    /\ streams' = [streams EXCEPT ![s].wr = Append(@, cur[p].arg)]
    /\ pc' = SetPc(Sup(p), "dispatch")
    /\ UNCHANGED <<envv, chan, regy, out, ret, reg, supv>>

\* Data: sendall raises on a dead local socket; nothing catches it before the
\* supervisor's except.
SupDataRaise(p) ==
    LET s == Lookup(p, cur[p].cid) IN
    /\ pc[Sup(p)] = "h_data"
    /\ lock[p] = NoThread
    /\ s # 0
    /\ streams[s].sock # "open" \/ streams[s].app = "closed"
    /\ pc' = Raised(p)
    /\ fatal' = [fatal EXCEPT ![p] = TRUE]
    /\ cur' = [cur EXCEPT ![p] = NoFrame]
    /\ UNCHANGED <<envv, chan, regy, streams, out, ret, reg, lsock, running, kacount, tdset>>

\* ------------------------------------------------------------------ teardown
\* except: "if ports: for port in ports: port.close()": TunnelPort.close
\* closes the listening socket, then joins the listener.
SupTdPorts(p) ==
    /\ pc[Sup(p)] = "td_ports"
    /\ IF lsock[p] = "none"
       THEN pc' = SetPc(Sup(p), "td_streams") /\ UNCHANGED lsock
       ELSE pc' = SetPc(Sup(p), "td_pjoin") /\ lsock' = [lsock EXCEPT ![p] = "closed"]
    /\ UNCHANGED <<envv, chan, regy, streams, out, ret, reg, cur, running, kacount,
                   tdset, fatal>>

\* The join() of TunnelPort.close returns.
SupTdPortJoin(p) ==
    /\ pc[Sup(p)] = "td_pjoin"
    /\ pc[Lst(p)] = "done"
    /\ pc[Lst2(p)] \in {"none", "done"}
    /\ pc' = SetPc(Sup(p), "td_streams")
    /\ UNCHANGED <<envv, chan, regy, streams, out, ret, reg, supv>>

\* "if connections: connections.closeall()": under the mutex the map is
\* taken and replaced by an empty one.
SupTdStreams(p) ==
    /\ pc[Sup(p)] = "td_streams"
    /\ IF pc[Ka(p)] = "none"
       THEN /\ pc' = SetPc(Sup(p), "td_ka")
            /\ UNCHANGED <<connections, tdset>>
       ELSE /\ lock[p] = NoThread
            /\ tdset' = [tdset EXCEPT ![p] = {connections[p][c] : c \in Cids} \ {0}]
            /\ connections' = [connections EXCEPT ![p] = EmptyMap]
            /\ pc' = SetPc(Sup(p), "td_close")
    /\ UNCHANGED <<envv, chan, lock, allocated, cids, streams, out, ret, reg, cur,
                   lsock, running, kacount, fatal>>

\* closeall(): connection.close() on one of the streams taken from the map.
\* An exception (join() of a thread never started) is raised inside the
\* supervisor's except block: nothing catches it and the supervisor ends.
SupTdCloseStream(p) ==
    \E s \in tdset[p] :
        /\ pc[Sup(p)] = "td_close"
        /\ streams' = [streams EXCEPT ![s].closed = TRUE, ![s].sock = "shut"]
        /\ IF pc[Wrk(p, s)] = "init"
           THEN pc' = SetPc(Sup(p), "dead") /\ UNCHANGED reg
           ELSE pc' = SetPc(Sup(p), "td_join") /\ reg' = [reg EXCEPT ![Sup(p)].sid = s]
        /\ UNCHANGED <<envv, chan, regy, out, ret, supv>>

\* closeall(): sock.shutdown raises in connection.close().
SupTdCloseRaise(p) ==
    \E s \in tdset[p] :
        /\ pc[Sup(p)] = "td_close"
        /\ streams[s].app = "closed"
        /\ streams' = [streams EXCEPT ![s].closed = TRUE]
        /\ pc' = SetPc(Sup(p), "dead")
        /\ UNCHANGED <<envv, chan, regy, out, ret, reg, supv>>

\* closeall(): the join() of connection.close() returns.
SupTdJoin(p) ==
    LET t == Sup(p) IN
    /\ pc[t] = "td_join"
    /\ pc[Wrk(p, reg[t].sid)] = "done"
    /\ tdset' = [tdset EXCEPT ![p] = @ \ {reg[t].sid}]
    /\ reg' = [reg EXCEPT ![t] = NoReg]
    /\ pc' = SetPc(t, "td_close")
    /\ UNCHANGED <<envv, chan, regy, streams, out, ret, cur, lsock, running, kacount, fatal>>

\* closeall() is done; "if keepalive: keepalive.close()" clears __running.
SupTdKa(p) ==
    /\ pc[Sup(p)] \in {"td_close", "td_ka"}
    /\ tdset[p] = {}
    /\ IF pc[Ka(p)] = "none"
       THEN pc' = SetPc(Sup(p), "reconnect") /\ UNCHANGED running
       ELSE pc' = SetPc(Sup(p), "td_kjoin") /\ running' = [running EXCEPT ![p] = FALSE]
    /\ UNCHANGED <<envv, chan, regy, streams, out, ret, reg, cur, lsock, kacount, tdset, fatal>>

\* The join() of KeepAlive.close returns; the supervisor is back at the top of
\* its loop (the client after time.sleep(args.reconnect)).
SupTdKaJoin(p) ==
    /\ pc[Sup(p)] = "td_kjoin"
    /\ pc[Ka(p)] = "done"
    /\ pc' = SetPc(Sup(p), "reconnect")
    /\ UNCHANGED <<envv, chan, regy, streams, out, ret, reg, supv>>

\* --------------------------------------------------------------- environment
\* Time passes.  Only the age of an inactive slot that is still cooling down
\* depends on the clock.
TickBy(d, max) ==
    /\ now + d <= max
    /\ \E p \in real : \E i \in 1..Len(allocated[p]) :
           ~allocated[p][i].active /\ ~Ready(allocated[p][i])
    /\ now' = now + d
    /\ UNCHANGED <<cfg, real, link, pack, chan, regy, streams, thrd, supv>>
Tick == TickBy(COOLDOWN_TIME \div 2, MaxTime)

\* The network loses the control connection.
LinkFail ==
    /\ link = "up"
    /\ link' = "broken"
    /\ UNCHANGED <<now, cfg, real, pack, chan, regy, streams, thrd, supv>>

\* The CIDs on their way to the FIFO of p.
CidsInFlight(p) == Cardinality({i \in 1..Len(Inbound(p)) :
                                  Inbound(p)[i].part = 1 /\ Inbound(p)[i].fr.tag = "Cid"})

\* A peer that is the network sends a frame.
Inject(q, f) ==
    /\ q \notin real
    /\ CanSend(q)
    /\ Len(wire[q]) + 2 <= WireCap
    /\ f.tag = "Cid" => Len(cids[Other(q)]) + CidsInFlight(Other(q)) <= MaxCid
    /\ f.tag = "Data" => \A s \in 1..Len(streams) : Len(streams[s].wr) < MaxChunks
    /\ wire' = [wire EXCEPT ![q] = @ \o <<Seg(Sup(q), f, 1), Seg(Sup(q), f, 2)>>]
    /\ UNCHANGED <<envv, conn, wlock, regy, streams, thrd, supv>>

\* A peer that is the network sends the first bytes of a frame only.
InjectPart(q, f) ==
    /\ q \notin real
    /\ CanSend(q)
    /\ Len(wire[q]) < WireCap
    /\ wire' = [wire EXCEPT ![q] = Append(@, Seg(Sup(q), f, 1))]
    /\ UNCHANGED <<envv, conn, wlock, regy, streams, thrd, supv>>

\* A peer that is the network closes its end of the control connection
\* (its process ends); what it has sent can still be read.
PeerClose(q) ==
    /\ q \notin real
    /\ conn[q] = "open"
    /\ link = "up"
    /\ conn' = [conn EXCEPT ![q] = "closed"]
    /\ UNCHANGED <<envv, wire, wlock, regy, streams, thrd, supv>>

\* A peer that is the network ends while its handshake is half sent: the rest
\* of the handshake is never delivered.
PeerCloseEarly(q) ==
    /\ q \notin real
    /\ conn[q] = "open"
    /\ link = "up"
    /\ wire[q] = <<Seg(Sup(q), Hello(q), 1), Seg(Sup(q), Hello(q), 2)>>
    /\ wire' = [wire EXCEPT ![q] = <<Seg(Sup(q), Hello(q), 1)>>]
    /\ conn' = [conn EXCEPT ![q] = "closed"]
    /\ UNCHANGED <<envv, wlock, regy, streams, thrd, supv>>

\* A peer that is the network reads what was sent to it.
Drain(q) ==
    /\ q \notin real
    /\ Len(Inbound(q)) > 0
    /\ wire' = [wire EXCEPT ![Other(q)] = Tail(@)]
    /\ UNCHANGED <<envv, conn, wlock, regy, streams, thrd, supv>>

\* ------------------------------------------------------------ specifications
\* No value has been packed.
NoPack == pvalue = <<>> /\ pdata = <<>> /\ presult = <<>>

\* The state at the top of "while True:" of __main__, before the first
\* connection, for the peers R that run the program with the options c.
InitRun(R, c) ==
    /\ now = 0
    /\ cfg = c
    /\ real = R
    /\ link = "down"
    /\ conn = [p \in Peers |-> "none"]
    /\ wire = [p \in Peers |-> <<>>]
    /\ wlock = [p \in Peers |-> NoThread]
    /\ lock = [p \in Peers |-> NoThread]
    /\ connections = [p \in Peers |-> EmptyMap]
    /\ allocated = [p \in Peers |-> <<>>]
    /\ cids = [p \in Peers |-> <<>>]
    /\ streams = <<>>
    /\ pc = [t \in Threads |-> IF t[1] = "sup" /\ t[2] \in R THEN "connect" ELSE "none"]
    /\ out = [t \in Threads |-> NoFrame]
    /\ ret = [t \in Threads |-> ""]
    /\ reg = [t \in Threads |-> NoReg]
    /\ cur = [p \in Peers |-> NoFrame]
    /\ lsock = [p \in Peers |-> "none"]
    /\ running = [p \in Peers |-> FALSE]
    /\ kacount = [p \in Peers |-> 0]
    /\ tdset = [p \in Peers |-> {}]
    /\ fatal = [p \in Peers |-> FALSE]

\* The same, with no packed value under way.
InitWith(R, c) ==
    /\ NoPack
    /\ InitRun(R, c)

\* The threads of peer p that call connection.write.
Writers(p) == {Sup(p), Lst(p), Ka(p)} \cup {Wrk(p, s) : s \in StreamsOf(p)}

\* ---------------------------------------------------------------------------
\* The server's allocator: the client is the network and sends Allocate
\* frames and Close frames; time passes.
InitAlloc == InitWith({"server"}, [p \in Peers |-> [digest |-> 1,
                 fwd |-> IF p = "server" THEN {FORWARD_PORT} ELSE {}]])
AllocFrames == {Frame("Allocate", 0, 0, 0)} \cup {Frame("Close", c, 0, 0) : c \in Cids}
NextAlloc ==
    \/ Establish
    \/ Tick
    \/ \E f \in AllocFrames : Inject("client", f)
    \/ Drain("client")
    \/ Write(Sup("server"))
    \/ SupHandshake("server")
    \/ SupRead("server")
    \/ AllocateServer(Sup("server"))
    \/ SupReply("server")
    \/ SupCloseAbsent("server")
    \/ SupRemove("server")
SpecAlloc == InitAlloc /\ [][NextAlloc]_vars

\* C3: in server role every allocate() returns either a new CID, equal to the
\* number of slots so far (so greater than every CID used before), or the
\* smallest CID whose slot is inactive and was deactivated at least
\* COOLDOWN_TIME ago; a CID released at time t is not returned before
\* t + COOLDOWN_TIME.
C3_AllocateCooldown ==
    [][\A t \in {Sup("server"), Lst("server")} :
          (pc[t] = "allocate" /\ pc'[t] # "allocate") =>
              LET c == reg'[t].cid
                  A == allocated["server"]
                  Cooled(d) == ~A[d + 1].active /\ now - A[d + 1].time >= 60
              IN \/ c = Len(A) /\ Len(allocated'["server"]) = Len(A) + 1
                 \/ /\ c < Len(A)
                    /\ Cooled(c)
                    /\ \A d \in 0..(c - 1) : ~Cooled(d)
                    /\ Len(allocated'["server"]) = Len(A)]_vars

\* CID 0 was released at time 0, CID 1 was handed out meanwhile, and at time
\* 60 allocate() returned CID 0 again.
C3_Witness ==
    /\ pc[Sup("server")] = "reply"
    /\ reg[Sup("server")].cid = 0
    /\ Len(allocated["server"]) = 2
    /\ allocated["server"][1].time = 60
    /\ now = 60

\* C7: the handling of a Close frame whose CID has no stream in the registry
\* map changes nothing in the registry, raises nothing, and ends at the top of
\* the dispatch loop.
C7_CloseUnknownNoop ==
    [][\A p \in real :
          (/\ pc[Sup(p)] = "h_remove"
           /\ pc'[Sup(p)] # "h_remove"
           /\ cur[p].tag = "Close"
           /\ connections[p][cur[p].cid] = 0)
          => /\ regy' = regy
             /\ fatal' = fatal
             /\ pc'[Sup(p)] = "dispatch"]_vars

\* ---------------------------------------------------------------------------
\* The server's policy check: the client is the network and sends Allocate
\* frames and Connect frames for a port the server does not forward.
InitReject == InitWith({"server"}, [p \in Peers |-> [digest |-> 1,
                  fwd |-> IF p = "server" THEN {FORWARD_PORT} ELSE {}]])
RejectFrames ==
    {Frame("Allocate", 0, 0, 0)} \cup {Frame("Connect", c, OTHER_PORT, 0) : c \in Cids}
NextReject ==
    \/ Establish
    \/ \E f \in RejectFrames : Inject("client", f)
    \/ Drain("client")
    \/ Write(Sup("server"))
    \/ SupHandshake("server")
    \/ SupRead("server")
    \/ AllocateServer(Sup("server"))
    \/ SupReply("server")
    \/ SupConnectAbort("server")
    \/ SupRemove("server")
SpecReject == InitReject /\ [][NextReject]_vars

\* C8: a Connect for a port that is not in --forward creates no stream, and
\* once its Close(cid) is written the CID is removed and the supervisor is
\* back at the top of the dispatch loop with no error raised.
C8_RejectSurvives ==
    [][\A p \in real :
          (/\ pc[Sup(p)] = "h_remove"
           /\ pc'[Sup(p)] # "h_remove"
           /\ cur[p].tag = "Connect"
           /\ cur[p].arg \notin cfg[p].fwd)
          => /\ streams' = streams
             /\ connections'[p][cur[p].cid] = 0
             /\ fatal' = fatal
             /\ pc'[Sup(p)] = "dispatch"]_vars

\* ---------------------------------------------------------------------------
\* The writers of the client's control connection: the supervisor (its
\* handshake, the Close of a rejected Connect), the port listener (the
\* Allocate frame inside allocate(), the Connect frame), a stream worker
\* (Data) and the keep-alive ticker.  The server is the network.
InitWire == InitWith({"client"}, [p \in Peers |-> [digest |-> 1, fwd |-> {FORWARD_PORT}]])
WireFrames == {Frame("Cid", 0, 0, 0), Frame("Connect", 1, OTHER_PORT, 0)}
NextWire ==
    \/ Establish
    \/ \E f \in WireFrames : Inject("server", f)
    \/ Drain("server")
    \/ \E t \in Writers("client") : WriteBegin(t) \/ WriteEnd(t)
    \/ SupHandshake("client")
    \/ SupRead("client")
    \/ SupCid("client")
    \/ SupConnectAbort("client")
    \/ SupRemove("client")
    \/ \E t \in {Lst("client")} : AllocateClient(t) \/ AllocateSent(t) \/ AllocateWait(t)
    \/ Len(streams) < MaxAccepts /\ ListenerAccept("client")
    \/ ListenerCreate("client")
    \/ ListenerConnect("client")
    \/ ListenerStart("client")
    \/ \E s \in Sids : WorkerRecvData("client", s)
    \/ KaTick("client")
SpecWire == InitWire /\ [][NextWire]_vars

\* The segments of wire[p] pair up: a first part is followed at once by the
\* second part of the same frame from the same thread.
Contiguous(w) ==
    \A i \in 1..Len(w) :
        /\ (w[i].part = 1 /\ i < Len(w)) =>
               w[i + 1].part = 2 /\ w[i + 1].by = w[i].by /\ w[i + 1].fr = w[i].fr
        /\ (w[i].part = 2 /\ i > 1) =>
               w[i - 1].part = 1 /\ w[i - 1].by = w[i].by /\ w[i - 1].fr = w[i].fr

\* C2: at most one thread is inside the send of the control connection, every
\* frame is on the wire as one contiguous unit, and a step that takes bytes
\* from the control connection is a step of the supervisor alone.
C2_WriteAtomic ==
    /\ [](\A p \in real :
            /\ Cardinality({t \in Threads : PeerOf(t) = p /\ pc[t] = "sending"}) <= 1
            /\ Contiguous(wire[p]))
    /\ [][\A p \in real :
            Len(wire'[Other(p)]) < Len(wire[Other(p)]) =>
                /\ pc[Sup(p)] \in {"hs_recv", "dispatch"}
                /\ \A t \in Threads \ {Sup(p)} : pc[t] # "none" => pc'[t] = pc[t]]_vars

\* The worker is inside sendall, with the first part of its Data frame on
\* the wire, while the listener, the ticker or the supervisor waits for the lock.
C2_Witness ==
    \E t \in Threads : \E u \in Threads :
        /\ t[1] = "wrk" /\ pc[t] = "sending" /\ wlock["client"] = t
        /\ u # t /\ PeerOf(u) = "client" /\ pc[u] = "write"
        /\ Len(wire["client"]) > 0
        /\ wire["client"][Len(wire["client"])] = Seg(t, out[t], 1)

\* C5: a Data frame of a stream that a port listener originated goes on the
\* wire only after the Connect frame of that stream.
C5_ConnectBeforeData ==
    [][\A p \in real :
          (/\ Len(wire'[p]) > Len(wire[p])
           /\ wire'[p][Len(wire'[p])].fr.tag = "Data"
           /\ streams[wire'[p][Len(wire'[p])].fr.src].origin)
          => streams[wire'[p][Len(wire'[p])].fr.src].announced]_vars

\* A Data frame of a listener-originated stream is on the wire.
C5_Witness ==
    \E i \in 1..Len(wire["client"]) :
        /\ wire["client"][i].fr.tag = "Data"
        /\ wire["client"][i].part = 2
        /\ streams[wire["client"][i].fr.src].origin
        /\ streams[wire["client"][i].fr.src].announced

\* ---------------------------------------------------------------------------
\* The server's dispatcher: the client is the network; it opens a stream on
\* CID 0 and sends Data and Close frames for it and Data for CID 1; the target
\* of the stream may close its end at any time.
InitDispatch == InitWith({"server"}, [p \in Peers |-> [digest |-> 1,
                    fwd |-> IF p = "server" THEN {FORWARD_PORT} ELSE {}]])
DispatchFrames ==
    {Frame("Connect", 0, FORWARD_PORT, 0), Frame("Close", 0, 0, 0)}
    \cup {Frame("Data", c, 0, 0) : c \in Cids}
NextDispatch ==
    \/ Establish
    \/ \E f \in DispatchFrames : Inject("client", f)
    \/ Drain("client")
    \/ \E s \in Sids : LocalClose(s)
    \/ \E t \in Writers("server") : Write(t)
    \/ SupHandshake("server")
    \/ SupRead("server")
    \/ Len(streams) < MaxDials /\ SupConnectDial("server")
    \/ SupConnectAbort("server")
    \/ SupCreate("server")
    \/ SupStart("server")
    \/ SupRemove("server")
    \/ SupCloseAbsent("server")
    \/ SupCloseStream("server")
    \/ SupCloseRaise("server")
    \/ SupJoin("server")
    \/ SupDataDrop("server")
    \/ SupDataSend("server")
    \/ SupDataRaise("server")
    \/ \E s \in Sids : WorkerLeave("server", s) \/ WorkerRemove("server", s)
SpecDispatch == InitDispatch /\ [][NextDispatch]_vars

\* C6: the step of the dispatcher that handles a Data frame whose CID is not
\* in the registry map writes to no local socket, leaves the map, the CID
\* slots and the CID queue as they are, emits no frame, raises nothing, and
\* ends at the top of the dispatch loop.
C6_DataUnknownDropped ==
    [][\A p \in real :
          (/\ pc[Sup(p)] = "h_data"
           /\ pc'[Sup(p)] # "h_data"
           /\ connections[p][cur[p].cid] = 0)
          => /\ streams' = streams
             /\ regy' = regy
             /\ wire'[p] = wire[p]
             /\ out' = out
             /\ fatal' = fatal
             /\ pc'[Sup(p)] = "dispatch"]_vars

\* Data(1) was dropped while the stream on CID 0 is live, with nothing
\* written to its socket.
C6_Witness ==
    /\ pc[Sup("server")] = "dispatch"
    /\ cur["server"].tag = "Data" /\ cur["server"].cid = 1
    /\ connections["server"][1] = 0
    /\ connections["server"][0] # 0
    /\ pc[Wrk("server", connections["server"][0])] = "recv"
    /\ streams[connections["server"][0]].wr = <<>>
    /\ ~fatal["server"]

\* C9: when the local socket of the stream a Data or Close frame names is
\* dead (its far end has closed), the handling of the frame does not enter
\* the supervisor's except: the session is not torn down.
C9_StreamErrorKeepsSession ==
    [][\A p \in real :
          (/\ pc[Sup(p)] \in {"h_data", "h_close"}
           /\ connections[p][cur[p].cid] # 0
           /\ streams[connections[p][cur[p].cid]].app = "closed"
           /\ pc[Wrk(p, connections[p][cur[p].cid])] # "init")
          => fatal' = fatal]_vars

\* C13: a worker on which close() has been called puts no Close frame on the
\* control connection and does not call remove(cid).
C13_ClosedWorkerSilent ==
    [][\A p \in real : \A s \in StreamsOf(p) :
          LET w == Wrk(p, s) IN
          /\ (pc[w] = "write" /\ out[w].tag = "Close" /\ pc'[w] # "write")
                 => ~streams[s].closed
          /\ (pc[w] = "remove" /\ pc'[w] # "remove") => ~streams[s].closed]_vars

\* ---------------------------------------------------------------------------
\* A client session that ends by a lost connection: the client listens on the
\* port the server forwards, the server (the network) answers Allocate with
\* Cid(0) or not at all, and the connection may be lost at any moment.  Every
\* thread of the client that can take a step eventually takes one.
InitTeardown == InitWith({"client"}, [p \in Peers |-> [digest |-> 1,
                    fwd |-> IF p = "server" THEN {FORWARD_PORT} ELSE {}]])
SupSteps(p) ==
    \/ Write(Sup(p))
    \/ SupHandshake(p)
    \/ SupRead(p)
    \/ SupReadFail(p)
    \/ SupCid(p)
    \/ SupTdPorts(p)
    \/ SupTdPortJoin(p)
    \/ SupTdStreams(p)
    \/ SupTdCloseStream(p)
    \/ SupTdCloseRaise(p)
    \/ SupTdJoin(p)
    \/ SupTdKa(p)
    \/ SupTdKaJoin(p)
LstSteps(p) ==
    \/ Write(Lst(p))
    \/ AllocateClient(Lst(p))
    \/ AllocateSent(Lst(p))
    \/ AllocateWait(Lst(p))
    \/ ListenerCreate(p)
    \/ ListenerConnect(p)
    \/ ListenerStart(p)
    \/ ListenerStop(p)
WrkSteps(p) ==
    \E s \in Sids : Write(Wrk(p, s)) \/ WorkerLeave(p, s) \/ WorkerRemove(p, s)
NextTeardown ==
    \/ Establish
    \/ LinkFail
    \/ Inject("server", Frame("Cid", 0, 0, 0))
    \/ Drain("server")
    \/ \E s \in Sids : LocalClose(s)
    \/ Len(streams) < MaxAccepts /\ ListenerAccept("client")
    \/ SupSteps("client")
    \/ LstSteps("client")
    \/ WrkSteps("client")
    \/ KaExit("client")
SpecTeardown ==
    /\ InitTeardown
    /\ [][NextTeardown]_vars
    /\ WF_vars(SupSteps("client"))
    /\ WF_vars(LstSteps("client"))
    /\ WF_vars(WrkSteps("client"))
    /\ WF_vars(KaExit("client"))

\* C10: once the supervisor has entered its except block, teardown completes
\* and the supervisor is back at the top of its loop for a new connection.
C10_TeardownCompletes ==
    fatal["client"] ~> (pc[Sup("client")] = "reconnect")

\* ---------------------------------------------------------------------------
\* Two peers running the program: the server listens on the port the client
\* forwards, so streams start at the server's port listener and the client
\* dials their targets.  Frames stay on the wire for any time, while the
\* clock advances by whole cooldown periods.
InitPair == InitWith(Peers, [p \in Peers |-> [digest |-> 1,
                fwd |-> IF p = "client" THEN {FORWARD_PORT} ELSE {}]])
NextPair ==
    \/ Establish
    \/ TickBy(COOLDOWN_TIME, MaxTime)
    \/ \E s \in Sids : LocalClose(s)
    \/ \E p \in Peers : \E t \in Writers(p) : Write(t)
    \/ \E p \in Peers : SupHandshake(p) \/ SupRead(p)
    \/ Len(streams) + 1 < MaxStreams /\ ListenerAccept("server")
    \/ AllocateServer(Lst("server"))
    \/ ListenerCreate("server")
    \/ ListenerConnect("server")
    \/ ListenerStart("server")
    \/ Len(streams) + 1 < MaxStreams /\ SupConnectDial("client")
    \/ SupCreate("client")
    \/ SupStart("client")
    \/ \E p \in Peers : SupCloseAbsent(p) \/ SupCloseStream(p) \/ SupJoin(p) \/ SupRemove(p)
    \/ \E p \in Peers : SupDataDrop(p) \/ SupDataSend(p)
    \/ \E p \in Peers : \E s \in Sids :
           WorkerRecvData(p, s) \/ WorkerLeave(p, s) \/ WorkerRemove(p, s)
SpecPair == InitPair /\ [][NextPair]_vars

\* The stream at the other end of stream s (0: none yet): the stream the
\* Connect frame was written for, or the stream dialed for that frame.
PairOf(s) ==
    IF ~streams[s].origin
    THEN streams[s].pair
    ELSE IF \E t \in 1..Len(streams) : ~streams[t].origin /\ streams[t].pair = s
         THEN CHOOSE t \in 1..Len(streams) : ~streams[t].origin /\ streams[t].pair = s
         ELSE 0

\* The chunks the worker of stream s has read from its local socket so far.
ReadBy(s) == IF s = 0 THEN <<>> ELSE [i \in 1..streams[s].rdn |-> Tok(s, i)]

IsPrefix(a, b) == Len(a) <= Len(b) /\ \A i \in 1..Len(a) : a[i] = b[i]

\* C1: what a peer has written to the local socket of a stream is a prefix of
\* what the worker of the stream at the other end has read from its socket.
C1_PrefixDelivery ==
    \A s \in 1..Len(streams) : IsPrefix(streams[s].wr, ReadBy(PairOf(s)))

\* ---------------------------------------------------------------------------
\* Two peers as before, with no payload: streams are opened by the server's
\* listener, the client's dial succeeds for the first MaxDials of them and
\* fails for the rest, either end of a running stream may close, and the
\* clock advances by whole cooldown periods.
NextReuse ==
    \/ Establish
    \/ TickBy(COOLDOWN_TIME, MaxPeriods * COOLDOWN_TIME)
    \/ \E s \in 1..Len(streams) :
           /\ pc[Wrk(streams[s].peer, s)] = "recv"
           /\ Cardinality({u \in 1..Len(streams) : streams[u].app = "closed"}) < MaxCloses
           /\ LocalClose(s)
    \/ \E p \in Peers : \E t \in Writers(p) : Write(t)
    \/ \E p \in Peers : SupHandshake(p) \/ SupRead(p)
    \/ ListenerAccept("server")
    \/ AllocateServer(Lst("server"))
    \/ ListenerCreate("server")
    \/ ListenerConnect("server")
    \/ ListenerStart("server")
    \/ Cardinality(StreamsOf("client")) < MaxDials /\ SupConnectDial("client")
    \/ Cardinality(StreamsOf("client")) >= MaxDials /\ SupConnectAbort("client")
    \/ SupCreate("client")
    \/ SupStart("client")
    \/ \E p \in Peers : SupCloseAbsent(p) \/ SupCloseStream(p) \/ SupJoin(p) \/ SupRemove(p)
    \/ \E p \in Peers : \E s \in Sids : WorkerLeave(p, s) \/ WorkerRemove(p, s)
SpecReuse == InitPair /\ [][NextReuse]_vars

\* The worker of stream s is in its read loop on an open local socket.
Live(s) ==
    LET w == Wrk(streams[s].peer, s) IN
    /\ pc[w] = "recv" \/ (pc[w] = "write" /\ ret[w] = "recv")
    /\ streams[s].sock = "open"
    /\ streams[s].app = "open"
    /\ ~streams[s].closed

\* C4: at each peer at most one live stream is bound to a CID.
C4_OneLiveStreamPerCid ==
    \A p \in Peers : \A c \in Cids :
        Cardinality({s \in StreamsOf(p) : Live(s) /\ streams[s].cid = c}) <= 1

\* ---------------------------------------------------------------------------
\* The handshake of two peers running the program, each with its own program
\* text (digest) and --forward option; the connection may be lost.
Digests == {1, 2}
InitHello ==
    \E c \in [Peers -> [digest : Digests, fwd : {{}, {FORWARD_PORT}}]] : InitWith(Peers, c)
SupHelloSteps(p) ==
    \/ Write(Sup(p))
    \/ SupHandshake(p)
    \/ SupRead(p)
    \/ SupReadFail(p)
    \/ SupTdPorts(p)
    \/ SupTdPortJoin(p)
    \/ SupTdStreams(p)
    \/ SupTdKa(p)
    \/ SupTdKaJoin(p)
NextHello ==
    \/ Establish
    \/ LinkFail
    \/ \E p \in Peers : SupHelloSteps(p)
    \/ \E p \in Peers : KaTick(p) \/ Write(Ka(p)) \/ KaExit(p)
    \/ \E p \in Peers : ListenerStop(p)
SpecHello ==
    /\ InitHello
    /\ [][NextHello]_vars
    /\ \A p \in Peers : WF_vars(SupHelloSteps(p))
    /\ \A p \in Peers : WF_vars(Write(Ka(p)) \/ KaExit(p))
    /\ \A p \in Peers : WF_vars(ListenerStop(p))

\* The digests of the two program texts differ.
Differ == cfg["server"].digest # cfg["client"].digest

\* The handshake of p is on the wire, or was, or its write failed.
HelloSent(p) ==
    \/ \E i \in 1..Len(wire[p]) : wire[p][i].fr = Hello(p)
    \/ pc[Sup(Other(p))] \notin {"connect", "write", "hs_recv"}
    \/ conn[p] # "open"

\* C11: a side reads the peer's handshake only after it has sent its own;
\* when the digests differ no side ever has a port listener, a keep-alive
\* ticker or a frame in dispatch, and once connected both sides end at the
\* top of the supervisor loop for the next connection attempt.
C11_DigestMismatch ==
    /\ [][\A p \in Peers :
            (pc[Sup(p)] = "hs_recv" /\ pc'[Sup(p)] # "hs_recv") => HelloSent(p)]_vars
    /\ [](Differ => \A p \in Peers :
            /\ pc[Lst(p)] = "none" /\ pc[Ka(p)] = "none"
            /\ lsock[p] = "none" /\ ~running[p]
            /\ cur[p] = NoFrame
            /\ pc[Sup(p)] \in {"connect", "write", "hs_recv", "td_ports",
                                "td_streams", "td_ka", "reconnect"})
    /\ (Differ /\ link # "down") ~> (\A p \in Peers : fatal[p] /\ pc[Sup(p)] = "reconnect")

\* Both sides forward a port, the digests differ, the connection is still up,
\* and both supervisors are back at the top of their loop.
C11_Witness ==
    /\ Differ
    /\ link = "up"
    /\ \A p \in Peers : cfg[p].fwd # {} /\ fatal[p] /\ pc[Sup(p)] = "reconnect"

\* ---------------------------------------------------------------------------
\* The packed integers of the wire format.  An unsigned 64-bit value is held
\* as its base-128 digits, least significant first: nine digits of 7 bits and
\* a tenth that is bit 63 alone.
UINT64_BITS == 64
ROUNDS == 8
Limbs == (UINT64_BITS + 6) \div 7
LimbValues == {0, 1, 127}
Values == {v \in [1..Limbs -> LimbValues] : v[Limbs] < 2 ^ (UINT64_BITS - 7 * (Limbs - 1))}
Zero == [i \in 1..Limbs |-> 0]

\* a | b
RECURSIVE BitOr(_, _)
BitOr(a, b) ==
    IF a = 0 THEN b
    ELSE IF b = 0 THEN a
    ELSE (IF a % 2 = 1 \/ b % 2 = 1 THEN 1 ELSE 0) + 2 * BitOr(a \div 2, b \div 2)

\* value < (1 << 7)
Small(v) == \A i \in 2..Limbs : v[i] = 0
\* value & 0x7f
Low7(v) == v[1]
\* value & 0xff with the eighth bit dropped.
Low8Masked(v) == v[1]
\* value & 0xff
Low8(v) == v[1] + 128 * (v[2] % 2)
\* value >> 7
Shr7(v) == [i \in 1..Limbs |-> IF i < Limbs THEN v[i + 1] ELSE 0]
\* result | (x << 7 * k), for a byte x
OrShift(r, x, k) ==
    [i \in 1..Limbs |-> IF i = k + 1 THEN BitOr(r[i], x % 128)
                        ELSE IF i = k + 2 THEN BitOr(r[i], x \div 128)
                        ELSE r[i]]

\* BinaryOutputStream.writePackedUInt64: the bytes written for v with n
\* rounds of the loop left.
RECURSIVE WritePacked(_, _)
WritePacked(v, n) ==
    IF n = 0 THEN <<Low8(v)>>
    ELSE IF Small(v) THEN <<Low7(v)>>
    ELSE <<Low7(v) + 128>> \o WritePacked(Shr7(v), n - 1)

\* BinaryInputStream.readPackedUInt64 on the bytes b, i of them read, in round
\* n of the loop with result r: the value returned and the bytes consumed; a
\* readUInt8 past the end of b raises.
RECURSIVE ReadPacked(_, _, _, _)
ReadPacked(b, i, r, n) ==
    IF i >= Len(b) THEN [ok |-> FALSE, val |-> r, used |-> i]
    ELSE LET value8 == b[i + 1] IN
         IF n = ROUNDS
         THEN [ok |-> TRUE, val |-> OrShift(r, value8, n), used |-> i + 1]
         ELSE IF value8 < 128
              THEN [ok |-> TRUE, val |-> OrShift(r, value8 % 128, n), used |-> i + 1]
              ELSE ReadPacked(b, i + 1, OrShift(r, value8 % 128, n), n + 1)

\* stream.writePackedUInt64(value) on an empty stream.
PackedWrite ==
    /\ pvalue # <<>>
    /\ pdata = <<>>
    /\ pdata' = WritePacked(pvalue, ROUNDS)
    /\ UNCHANGED <<now, cfg, real, link, pvalue, presult, chan, regy, streams, thrd, supv>>

\* The first byte of the field that follows is written to the stream.
PackedNext ==
    \E b \in {0, 128, 255} :
        /\ pvalue # <<>>
        /\ pdata # <<>>
        /\ Len(pdata) = Len(WritePacked(pvalue, ROUNDS))
        /\ presult = <<>>
        /\ pdata' = Append(pdata, b)
        /\ UNCHANGED <<now, cfg, real, link, pvalue, presult, chan, regy, streams, thrd, supv>>

\* readPackedUInt64() on the bytes of the stream.
PackedRead ==
    /\ pdata # <<>>
    /\ presult = <<>>
    /\ presult' = ReadPacked(pdata, 0, Zero, 0)
    /\ UNCHANGED <<now, cfg, real, link, pvalue, pdata, chan, regy, streams, thrd, supv>>

InitPacked ==
    /\ pvalue \in Values
    /\ pdata = <<>>
    /\ presult = <<>>
    /\ InitRun({}, [p \in Peers |-> [digest |-> 1, fwd |-> {}]])
NextPacked == PackedWrite \/ PackedNext \/ PackedRead
SpecPacked == InitPacked /\ [][NextPacked]_vars

\* C12: the bytes written for a value are at most 9 bytes, each a byte, and
\* reading them back returns the value and consumes exactly those bytes,
\* whatever follows them in the stream.
C12_PackedRoundTrip ==
    pvalue # <<>> =>
        LET e == WritePacked(pvalue, ROUNDS) IN
        /\ Len(e) <= 9
        /\ \A i \in 1..Len(e) : e[i] \in 0..255
        /\ pdata # <<>> => SubSeq(pdata, 1, Len(e)) = e
        /\ presult # <<>> =>
               presult.ok /\ presult.val = pvalue /\ presult.used = Len(e)

\* A value with bit 63 set was written as 9 bytes, another byte follows, and
\* the value was read back.
C12_Witness ==
    /\ pvalue # <<>>
    /\ pvalue[Limbs] = 1
    /\ Len(pdata) = 10
    /\ presult # <<>>
    /\ presult.used = 9
    /\ presult.val = pvalue

\* The threads of p that a session starts.
SessionThreads(p) == {Lst(p), Ka(p)} \cup {Wrk(p, s) : s \in StreamsOf(p)}

\* C14: teardown closes and joins the port listener before closeall() takes
\* the map, closeall() has closed every stream before the ticker is stopped,
\* and when the supervisor is back at the top of its loop no listener, worker
\* or ticker of the session runs, the map is empty and the control connection
\* is closed.
C14_TeardownOrder ==
    /\ [][\A p \in real :
            /\ (pc[Sup(p)] = "td_streams" /\ pc'[Sup(p)] # "td_streams")
                   => pc[Lst(p)] \in {"none", "done"} /\ lsock[p] # "open"
            /\ (pc[Sup(p)] \in {"td_close", "td_ka"} /\ pc'[Sup(p)] \in {"td_kjoin", "reconnect"})
                   => /\ \A c \in Cids : connections[p][c] = 0
                      /\ \A s \in StreamsOf(p) : pc[Wrk(p, s)] \in {"none", "init", "done"}]_vars
    /\ [](\A p \in real : pc[Sup(p)] = "reconnect" =>
            /\ \A t \in SessionThreads(p) : pc[t] \in {"none", "init", "done"}
            /\ \A c \in Cids : connections[p][c] = 0
            /\ conn[p] # "open")

\* ---------------------------------------------------------------------------
\* The reads of the client's supervisor: the server is the network; it sends
\* its handshake whole or in part, KeepAlive frames whole or in part, and may
\* close its end or lose the connection at any moment.  The client's ticker
\* still has a KeepAlive to write when the server closes.
InitRead == InitWith({"client"}, [p \in Peers |-> [digest |-> 1, fwd |-> {}]])
ReadFrames == {Frame("KeepAlive", 0, 0, 0)}
Whole(w) == Len(w) % 2 = 0
SupReadSteps(p) ==
    \/ Write(Sup(p))
    \/ SupHandshake(p)
    \/ SupRead(p)
    \/ SupReadFail(p)
    \/ SupReadSpin(p)
    \/ SupTdPorts(p)
    \/ SupTdStreams(p)
    \/ SupTdKa(p)
    \/ SupTdKaJoin(p)
KaSteps(p) == KaTick(p) \/ Write(Ka(p)) \/ KaExit(p)
NextRead ==
    \/ Establish
    \/ LinkFail
    \/ Drain("server")
    \/ PeerCloseEarly("server")
    \/ \E f \in ReadFrames : Whole(wire["server"]) /\ Inject("server", f)
    \/ \E f \in ReadFrames : Whole(wire["server"]) /\ InjectPart("server", f)
    \/ kacount["client"] < MaxKA /\ PeerClose("server")
    \/ SupReadSteps("client")
    \/ KaSteps("client")
SpecRead ==
    /\ InitRead
    /\ [][NextRead]_vars
    /\ WF_vars(SupReadSteps("client"))
    /\ WF_vars(KaSteps("client"))

\* C15: a read consumes whole frames only, and when the peer has closed the
\* connection with less than a whole frame left to read, the read fails and
\* the supervisor enters teardown.
C15_ShortReadFails ==
    /\ [][\A p \in real :
            (conn' = conn /\ Len(wire'[Other(p)]) < Len(wire[Other(p)])) =>
                Len(wire'[Other(p)]) = Len(wire[Other(p)]) - 2]_vars
    /\ \A p \in {"client"} :
          (/\ p \in real
           /\ pc[Sup(p)] \in {"hs_recv", "dispatch"}
           /\ conn[Other(p)] = "closed"
           /\ Len(Inbound(p)) < 2) ~> fatal[p]

\* C16: a KeepAlive write that fails clears the ticker's running flag; the
\* ticker puts a frame on the wire only while the flag is set; and when
\* KeepAlive.close() has returned the ticker has ended and the control
\* connection is closed.
C16_TickerStops ==
    /\ [][\A p \in real :
            /\ (pc[Ka(p)] = "write" /\ pc'[Ka(p)] # "write" /\ ~CanSend(p))
                   => ~running'[p]
            /\ (/\ Len(wire'[p]) > Len(wire[p])
                /\ wire'[p][Len(wire'[p])].by = Ka(p)) => running[p]]_vars
    /\ [](\A p \in real : (pc[Sup(p)] = "reconnect" /\ pc[Ka(p)] # "none") =>
            pc[Ka(p)] = "done" /\ conn[p] # "open")

\* The workers of p that were started and have not ended.
LiveWorkers(p) ==
    {s \in StreamsOf(p) : pc[Wrk(p, s)] \in {"recv", "write", "sending", "remove"}}
\* The CIDs in the registry map of p.
MapCids(p) == {c \in Cids : connections[p][c] # 0}

\* C17: the live stream workers of a peer are never more than the CIDs in its
\* registry map (the map may be ahead by a stream that is created and not yet
\* started, or closed and not yet removed; it is never behind).
C17_WorkersInMap ==
    \A p \in real : Cardinality(LiveWorkers(p)) <= Cardinality(MapCids(p))

\* ---------------------------------------------------------------------------
\* Two port listeners of the client call allocate() concurrently: the server
\* (the network) forwards two ports and sends Cid frames with any CID at any
\* time.
InitFifo == InitWith({"client"}, [p \in Peers |-> [digest |-> 1,
                fwd |-> IF p = "server" THEN {FORWARD_PORT, SECOND_PORT} ELSE {}]])
Listeners(p) == {Lst(p), Lst2(p)}
FifoFrames == {Frame("Cid", c, 0, 0) : c \in Cids}
NextFifo ==
    \/ Establish
    \/ \E f \in FifoFrames : Inject("server", f)
    \/ Drain("server")
    \/ \E t \in {Sup("client")} \cup Listeners("client") : Write(t)
    \/ SupHandshake("client")
    \/ SupRead("client")
    \/ SupCid("client")
    \/ \E t \in Listeners("client") :
           \/ Len(streams) <= MaxAccepts /\ PortAccept(t)
           \/ AllocateClient(t)
           \/ AllocateSent(t)
           \/ AllocateWait(t)
           \/ PortCreate(t)
           \/ PortConnect(t)
SpecFifo == InitFifo /\ [][NextFifo]_vars

\* C18: in client role a call of allocate() writes one Allocate frame and
\* nothing else, returns the CID at the head of the FIFO and takes it off the
\* FIFO in the same step, holds the registry mutex only until its first look
\* at the FIFO, and the FIFO grows only by the CID of a Cid frame, at its
\* tail; the CID of a Connect frame is the CID its listener was handed.
C18_ClientAllocate ==
    /\ [][\A t \in Listeners("client") :
            LET p == PeerOf(t) IN
            /\ (pc[t] = "allocate" /\ pc'[t] # "allocate") =>
                   /\ pc'[t] = "write" /\ ret'[t] = "alloc_sent"
                   /\ out'[t] = Frame("Allocate", 0, 0, 0)
            /\ (pc[t] \in {"alloc_sent", "alloc_wait"} /\ pc'[t] # pc[t]) =>
                   \/ pc'[t] = "alloc_wait" /\ cids[p] = <<>> /\ UNCHANGED <<cids, reg>>
                   \/ /\ pc'[t] = "create"
                      /\ cids[p] # <<>>
                      /\ reg'[t].cid = Head(cids[p])
                      /\ cids'[p] = Tail(cids[p])
            /\ (pc[t] = "write" /\ out[t].tag = "Connect") => out[t].cid = reg[t].cid
            /\ cids'[p] # cids[p] =>
                   \/ cids[p] # <<>> /\ cids'[p] = Tail(cids[p])
                   \/ /\ pc[Sup(p)] = "h_cid" /\ cur[p].tag = "Cid"
                      /\ cids'[p] = Append(cids[p], cur[p].cid)]_vars
    /\ [](\A t \in Listeners("client") :
            /\ pc[t] = "alloc_wait" => lock[PeerOf(t)] # t
            /\ lock[PeerOf(t)] = t =>
                   pc[t] = "alloc_sent" \/ (pc[t] = "write" /\ ret[t] = "alloc_sent"))

\* Both listeners wait in allocate(), each with its Allocate frame written,
\* while two different CIDs are in the FIFO, the later one first to arrive
\* being CID 1.
C18_Witness ==
    /\ \A t \in Listeners("client") : pc[t] = "alloc_wait"
    /\ cids["client"] = <<1, 0>>
    /\ lock["client"] = NoThread

\* Streams e and s are the two ends of one tunnelled connection: one was
\* dialed for the Connect frame written for the other.
SameStream(e, s) ==
    \/ ~streams[s].origin /\ streams[s].pair = e
    \/ ~streams[e].origin /\ streams[e].pair = s

\* C19: a Data or Close frame that a stream worker wrote is applied (its
\* bytes sent, the stream closed, the map entry removed) only to the stream
\* at the other end of that worker's own stream.
C19_NoStaleFrame ==
    [][\A p \in real :
          LET s == connections[p][cur[p].cid] IN
          (/\ \/ pc[Sup(p)] \in {"h_data", "h_close"}
              \/ pc[Sup(p)] = "h_remove" /\ cur[p].tag = "Close"
           /\ pc'[Sup(p)] # pc[Sup(p)]
           /\ cur[p].src # 0
           /\ s # 0)
          => SameStream(cur[p].src, s)]_vars

\* C20: the registry mutex is held only by a thread that is inside a registry
\* operation (the one operation that spans steps is the client-role
\* allocate() until its first look at the FIFO).
C20_MutexReleased ==
    \A p \in real :
        lock[p] # NoThread =>
            \/ pc[lock[p]] = "alloc_sent"
            \/ pc[lock[p]] \in {"write", "sending"} /\ ret[lock[p]] = "alloc_sent"

\* ---------------------------------------------------------------------------
\* Two peers that each forward a port to the other, over a control connection
\* that buffers WireCap segments in each direction: both run a port listener
\* and a ticker, every dial fails (the targets are down), and nothing but the
\* two supervisors reads the control connection.
InitBlock == InitWith(Peers, [p \in Peers |-> [digest |-> 1, fwd |-> {FORWARD_PORT}]])
NextBlock ==
    \/ Establish
    \/ \E p \in Peers : \E t \in Writers(p) : Write(t)
    \/ \E p \in Peers : SupHandshake(p) \/ SupRead(p)
    \/ \E p \in Peers : Len(streams) <= MaxAccepts /\ ListenerAccept(p)
    \/ AllocateServer(Lst("server"))
    \/ AllocateServer(Sup("server"))
    \/ SupReply("server")
    \/ AllocateClient(Lst("client"))
    \/ AllocateSent(Lst("client"))
    \/ AllocateWait(Lst("client"))
    \/ SupCid("client")
    \/ \E p \in Peers : ListenerCreate(p) \/ ListenerConnect(p) \/ ListenerStart(p)
    \/ \E p \in Peers : SupConnectAbort(p) \/ SupRemove(p)
    \/ \E p \in Peers : SupCloseStream(p) \/ SupJoin(p)
    \/ \E p \in Peers : \E s \in Sids : WorkerLeave(p, s)
    \/ \E p \in Peers : KaTick(p)
SpecBlock == InitBlock /\ [][NextBlock]_vars

\* sendall of connection.write by thread t cannot return: the connection is
\* up and its buffer has no room for the frame.
BlockedWrite(t) ==
    /\ pc[t] = "write"
    /\ CanSend(PeerOf(t))
    /\ Len(wire[PeerOf(t)]) + 2 > WireCap

\* The supervisor of p is at a registry operation, which starts with
\* self.__lock.acquire().
AtRegistry(p) ==
    pc[Sup(p)] \in {"allocate", "h_cid", "h_create", "h_start", "h_close", "h_remove", "h_data"}

\* The supervisor of p reads nothing: it is blocked in a write of the control
\* connection, or on the registry mutex held by an allocate() that is blocked
\* in its write of the Allocate frame.
BlockedSup(p) ==
    \/ BlockedWrite(Sup(p))
    \/ /\ AtRegistry(p)
       /\ lock[p] # NoThread
       /\ BlockedWrite(lock[p])

\* C21: the two supervisors are never both blocked with the control
\* connection full in both directions.
C21_NoWriteDeadlock ==
    ~(BlockedSup("server") /\ BlockedSup("client"))

====
